---- MODULE Spec2Model ----
(***************************************************************************)
(* The ESLint rule no-plain-query-keys (src/src/rules/no-plain-query-keys  *)
(* .ts) as a state machine.  A run of the rule is one traversal of a       *)
(* parsed program: the host walks the tree in source order and calls the   *)
(* rule's three listeners, CallExpression, CallExpression:exit and         *)
(* Property.  The rule's state is the closure variable inQueryOptionsCall  *)
(* and the diagnostics handed to context.report.                           *)
(***************************************************************************)
EXTENDS Naturals, Sequences, FiniteSets

VARIABLES tree, steps, pc, inQueryOptionsCall, reports, phase, first

vars == <<tree, steps, pc, inQueryOptionsCall, reports, phase, first>>

(***************************************************************************)
(* Bounds of the model.                                                    *)
(***************************************************************************)
\* nesting depth of the generated expressions
MaxDepth == 3

(***************************************************************************)
(* Program constants.                                                      *)
(***************************************************************************)
QUERY_CLIENT_OBJ_NAME == "queryClient"

QUERY_KEY_PROPERTY_NAME == "queryKey"

MUTATION_KEY_PROPERTY_NAME == "mutationKey"

QUERY_OPTIONS_CALLEE_NAME == "queryOptions"

\* the one set built in create(): client methods and hooks together
queryKeyMethods ==
  { "setQueryData", "getQueryData", "invalidateQueries", "refetchQueries",
    "removeQueries", "resetQueries", "cancelQueries", "isFetching",
    "prefetchQuery", "fetchQuery", "fetchInfiniteQuery",
    "useQuery", "useInfiniteQuery", "useMutation" }

\* the value of methodOrHookName when no name was recognised
NULL == "<null>"

(***************************************************************************)
(* Syntax trees.  A node carries the fields the rule reads: its type, for  *)
(* a call its callee (node.callee.type, .name, .object, .property), for a  *)
(* property its key (node.key.type, .name), for a literal the typeof its   *)
(* value, and its children in source order (a call's arguments, an         *)
(* object's properties, a property's value, an array's elements, an arrow  *)
(* function's body, a program's statements).                               *)
(***************************************************************************)
NoId == [type |-> "", name |-> ""]

NoKey == [type |-> "", name |-> "", value |-> ""]

NoCallee == [type |-> "", name |-> "", object |-> NoId, property |-> NoId]

Node(type, callee, key, valueType, raw, kids) ==
  [type |-> type, callee |-> callee, key |-> key, valueType |-> valueType,
   raw |-> raw, kids |-> kids]

\* what getNodeByRangeIndex returns when no node contains the index
NoNode == Node("", NoCallee, NoKey, "", "", <<>>)

IdCallee(name) ==
  [type |-> "Identifier", name |-> name, object |-> NoId, property |-> NoId]

MemberCallee(otype, oname, ptype, pname) ==
  [type |-> "MemberExpression", name |-> "",
   object |-> [type |-> otype, name |-> oname],
   property |-> [type |-> ptype, name |-> pname]]

Call(callee, args) == Node("CallExpression", callee, NoKey, "", "", args)

Obj(props) == Node("ObjectExpression", NoCallee, NoKey, "", "", props)

\* key: an identifier (queryKey: v) has a name, a string literal
\* ("queryKey": v) has a value
IdKey(name) == [type |-> "Identifier", name |-> name, value |-> ""]

LitKey(value) == [type |-> "Literal", name |-> "", value |-> value]

Prop(key, value) == Node("Property", NoCallee, key, "", "", <<value>>)

Arr(elements) == Node("ArrayExpression", NoCallee, NoKey, "", "", elements)

Lit(valueType, raw) == Node("Literal", NoCallee, NoKey, valueType, raw, <<>>)

Leaf(type) == Node(type, NoCallee, NoKey, "", "", <<>>)

Arrow(body) ==
  Node("ArrowFunctionExpression", NoCallee, NoKey, "", "", <<body>>)

Spread(argument) ==
  Node("SpreadElement", NoCallee, NoKey, "", "", <<argument>>)

Program(statements) == Node("Program", NoCallee, NoKey, "", "", statements)

\* a node's place in the tree: the child indices from the root
RECURSIVE NodeAt(_, _)
NodeAt(node, path) ==
  IF path = <<>> THEN node ELSE NodeAt(node.kids[Head(path)], Tail(path))

Front(path) == SubSeq(path, 1, Len(path) - 1)

(***************************************************************************)
(* The host's traversal: every node is entered in source order, parents    *)
(* before children; a call is left after its arguments.  Only the steps    *)
(* the rule can listen to are kept: the enter of each node and the exit of *)
(* each CallExpression.                                                    *)
(***************************************************************************)
RECURSIVE Steps(_, _)
RECURSIVE KidsSteps(_, _, _)
Steps(node, path) ==
  <<[kind |-> "enter", path |-> path]>>
    \o KidsSteps(node, path, 1)
    \o (IF node.type = "CallExpression"
          THEN <<[kind |-> "exit", path |-> path]>>
          ELSE <<>>)

KidsSteps(node, path, i) ==
  IF i > Len(node.kids)
    THEN <<>>
    ELSE Steps(node.kids[i], Append(path, i)) \o KidsSteps(node, path, i + 1)

Done == pc > Len(steps)

Step == steps[pc]

Current == NodeAt(tree, Step.path)

(***************************************************************************)
(* sourceCode.getNodeByRangeIndex(n.range[0] - 1): the deepest node that   *)
(* contains the character before n.  In the trees of this model that       *)
(* character ("(", ",", ":", "=>", "[", "..." or blank) always belongs to  *)
(* the text of n's parent itself; before the program there is no node.     *)
(***************************************************************************)
getNodeByRangeIndexBefore(t, path) ==
  IF path = <<>> THEN NoNode ELSE NodeAt(t, Front(path))

(***************************************************************************)
(* The rule's helpers.                                                     *)
(***************************************************************************)
\* isRawKeyDisallowed with empty arrays let through
isRawKeyDisallowedUnlessEmpty(node) ==
  IF node.type = "" THEN FALSE
  ELSE IF node.type = "ArrayExpression" THEN node.kids # <<>>
  ELSE IF node.type = "Literal" /\ node.valueType = "string" THEN TRUE
  ELSE FALSE

\* isRawKeyDisallowed by exclusion: all but identifiers and member accesses
isRawKeyDisallowedByExclusion(node) ==
  IF node.type = "" THEN FALSE
  ELSE node.type \notin {"Identifier", "MemberExpression"}

\* isRawKeyDisallowed with object literals taken as raw too
isRawKeyDisallowedOrObject(node) ==
  IF node.type = "" THEN FALSE
  ELSE IF node.type \in {"ArrayExpression", "ObjectExpression"} THEN TRUE
  ELSE IF node.type = "Literal" /\ node.valueType = "string" THEN TRUE
  ELSE FALSE

isRawKeyDisallowed(node) ==
  IF node.type = "" THEN FALSE
  ELSE IF node.type = "ArrayExpression" THEN TRUE
  ELSE IF node.type = "Literal" /\ node.valueType = "string" THEN TRUE
  ELSE FALSE

isValidKeyFactoryUsage(node) ==
  IF node.type = "" THEN FALSE
  ELSE IF node.type = "MemberExpression" THEN TRUE
  ELSE IF node.type = "CallExpression" THEN TRUE
  ELSE IF node.type = "Identifier" THEN TRUE
  ELSE FALSE

IsQueryOptionsCall(node) ==
  /\ node.callee.type = "Identifier"
  /\ node.callee.name = QUERY_OPTIONS_CALLEE_NAME

\* methodOrHookName without the comparison of the receiver's name
methodOrHookNameAnyReceiver(node) ==
  IF node.callee.type = "MemberExpression"
    THEN IF /\ node.callee.object.type = "Identifier"
            /\ node.callee.property.type = "Identifier"
            /\ node.callee.property.name \in queryKeyMethods
           THEN node.callee.property.name
           ELSE NULL
  ELSE IF node.callee.type = "Identifier"
    THEN IF node.callee.name \in queryKeyMethods
           THEN node.callee.name
           ELSE NULL
  ELSE NULL

methodOrHookName(node) ==
  IF node.callee.type = "MemberExpression"
    THEN IF /\ node.callee.object.type = "Identifier"
            /\ node.callee.object.name = QUERY_CLIENT_OBJ_NAME
            /\ node.callee.property.type = "Identifier"
            /\ node.callee.property.name \in queryKeyMethods
           THEN node.callee.property.name
           ELSE NULL
  ELSE IF node.callee.type = "Identifier"
    THEN IF node.callee.name \in queryKeyMethods
           THEN node.callee.name
           ELSE NULL
  ELSE NULL

\* the guard around "return; // Inside queryOptions, allow raw key"
InsideQueryOptionsObject(t, path) ==
  LET parent == getNodeByRangeIndexBefore(t, path)
  IN  /\ parent.type = "ObjectExpression"
      /\ LET grandParent == getNodeByRangeIndexBefore(t, Front(path))
         IN  /\ grandParent.type = "CallExpression"
             /\ IsQueryOptionsCall(grandParent)

\* what the CallExpression listener hands to context.report for the call at
\* path: nothing, or its first argument
DirectArgumentReports(t, path) ==
  LET node == NodeAt(t, path)
  IN  IF methodOrHookName(node) = NULL \/ Len(node.kids) = 0 THEN <<>>
      ELSE LET firstArg == node.kids[1]
           IN  IF firstArg.type = "Identifier" THEN <<>>
               ELSE IF firstArg.type = "CallExpression" THEN <<>>
               ELSE IF firstArg.type = "MemberExpression" THEN <<>>
               ELSE IF isRawKeyDisallowed(firstArg)
                 THEN IF InsideQueryOptionsObject(t, path) THEN <<>>
                      ELSE IF IsQueryOptionsCall(node) THEN <<>>
                      ELSE <<Append(path, 1)>>
               ELSE <<>>

\* IsKeyProperty without mutationKey
IsKeyPropertyQueryKeyOnly(node) ==
  /\ node.key.type = "Identifier"
  /\ node.key.name = QUERY_KEY_PROPERTY_NAME

IsKeyProperty(node) ==
  /\ node.key.type = "Identifier"
  /\ \/ node.key.name = QUERY_KEY_PROPERTY_NAME
     \/ node.key.name = MUTATION_KEY_PROPERTY_NAME

\* what the Property listener hands to context.report for the property at
\* path: nothing, or its value
PropertyReports(t, path, suppressed) ==
  LET node == NodeAt(t, path)
  IN  IF IsKeyProperty(node)
        THEN IF suppressed THEN <<>>
             ELSE IF isRawKeyDisallowed(node.kids[1])
               THEN <<Append(path, 1)>>
               ELSE <<>>
        ELSE <<>>

(***************************************************************************)
(* The listeners.                                                          *)
(***************************************************************************)
CallExpression ==
  /\ ~Done
  /\ Step.kind = "enter"
  /\ Current.type = "CallExpression"
  /\ inQueryOptionsCall' =
       (IF IsQueryOptionsCall(Current) THEN TRUE ELSE inQueryOptionsCall)
  /\ reports' = reports \o DirectArgumentReports(tree, Step.path)
  /\ pc' = pc + 1
  /\ UNCHANGED <<tree, steps, phase, first>>

\* CallExpression:exit that leaves inQueryOptionsCall as it is
CallExpressionExitKeepsFlag ==
  /\ ~Done
  /\ Step.kind = "exit"
  /\ Current.type = "CallExpression"
  /\ pc' = pc + 1
  /\ UNCHANGED <<tree, steps, inQueryOptionsCall, reports, phase, first>>

CallExpressionExit ==
  /\ ~Done
  /\ Step.kind = "exit"
  /\ Current.type = "CallExpression"
  /\ inQueryOptionsCall' =
       (IF IsQueryOptionsCall(Current) THEN FALSE ELSE inQueryOptionsCall)
  /\ pc' = pc + 1
  /\ UNCHANGED <<tree, steps, reports, phase, first>>

Property ==
  /\ ~Done
  /\ Step.kind = "enter"
  /\ Current.type = "Property"
  /\ reports' = reports \o PropertyReports(tree, Step.path, inQueryOptionsCall)
  /\ pc' = pc + 1
  /\ UNCHANGED <<tree, steps, inQueryOptionsCall, phase, first>>

\* a node the rule has no listener for
OtherNode ==
  /\ ~Done
  /\ Step.kind = "enter"
  /\ Current.type \notin {"CallExpression", "Property"}
  /\ pc' = pc + 1
  /\ UNCHANGED <<tree, steps, inQueryOptionsCall, reports, phase, first>>

(***************************************************************************)
(* create(context): the host calls it once for every run, so each run has  *)
(* a closure variable of its own, set to false, and no diagnostics yet.    *)
(***************************************************************************)
\* a variable shared by all runs, never set back
sharedInQueryOptionsCall == inQueryOptionsCall

createInQueryOptionsCall == FALSE

create(t) ==
  /\ tree' = t
  /\ steps' = Steps(t, <<>>)
  /\ pc' = 1
  /\ inQueryOptionsCall' = createInQueryOptionsCall
  /\ reports' = <<>>

(***************************************************************************)
(* The programs the rule is run on.                                        *)
(***************************************************************************)
QueryOptions == IdCallee(QUERY_OPTIONS_CALLEE_NAME)

ClientMethod(name) ==
  MemberCallee("Identifier", QUERY_CLIENT_OBJ_NAME, "Identifier", name)

OtherObjectMethod(name) ==
  MemberCallee("Identifier", "someOtherObject", "Identifier", name)

\* [], an identifier
DeepLeaves == { Arr(<<>>), Leaf("Identifier") }

\* queryOptions(), queryClient.setQueryData()
ZeroArgCalls == { Call(QueryOptions, <<>>), Call(ClientMethod("setQueryData"), <<>>) }

DeepCallees ==
  { QueryOptions, ClientMethod("setQueryData"), OtherObjectMethod("setQueryData") }

\* expressions nested at most n deep: f(e), queryClient.fetchQuery([], () => e),
\* { queryKey: e }, { queryFn: e }, { queryFn: e, queryKey: [] }
RECURSIVE Deep(_)
Deep(n) ==
  IF n = 0 THEN DeepLeaves \cup ZeroArgCalls
  ELSE LET sub == Deep(n - 1)
       IN  DeepLeaves \cup ZeroArgCalls
             \cup { Call(c, <<a>>) : c \in DeepCallees, a \in sub }
             \cup { Call(ClientMethod("fetchQuery"), <<Arr(<<>>), Arrow(a)>>) :
                      a \in sub }
             \cup { Obj(<<Prop(IdKey(k), a)>>) :
                      k \in {QUERY_KEY_PROPERTY_NAME, "queryFn"}, a \in sub }
             \cup { Obj(<<Prop(IdKey("queryFn"), a),
                          Prop(IdKey(QUERY_KEY_PROPERTY_NAME), Arr(<<>>))>>) :
                      a \in sub }

\* a statement that follows another: queryClient.setQueryData([]),
\* queryOptions(options), useQuery({ queryKey: [] })
TailStatements ==
  { Call(ClientMethod("setQueryData"), <<Arr(<<>>)>>),
    Call(QueryOptions, <<Leaf("Identifier")>>),
    Call(IdCallee("useQuery"),
         <<Obj(<<Prop(IdKey(QUERY_KEY_PROPERTY_NAME), Arr(<<>>))>>)>>) }

CalleeNames == queryKeyMethods \cup {QUERY_OPTIONS_CALLEE_NAME, "someOtherMethod"}

\* name(...), queryClient.name(...), someOtherObject.name(...),
\* queryClient["setQueryData"](...), this.queryClient.setQueryData(...),
\* getClient()(...)
WideCallees ==
  { IdCallee(n) : n \in CalleeNames }
    \cup { ClientMethod(n) : n \in CalleeNames }
    \cup { OtherObjectMethod(n) : n \in CalleeNames }
    \cup { MemberCallee("Identifier", QUERY_CLIENT_OBJ_NAME, "Literal", ""),
           MemberCallee("MemberExpression", "", "Identifier", "setQueryData"),
           [type |-> "CallExpression", name |-> "", object |-> NoId,
            property |-> NoId] }

\* [], [""], [...userKeys.detail(1), "additional"], "users", 1, key,
\* userKeys.all, `users`, userKeys.detail(1), createKey("users"), {}
WideLeaves ==
  { Arr(<<>>),
    Arr(<<Lit("string", "")>>),
    Arr(<<Spread(Call(MemberCallee("Identifier", "userKeys", "Identifier", "detail"),
                      <<Lit("number", "1")>>)),
          Lit("string", "additional")>>),
    Lit("string", "users"),
    Lit("number", "1"),
    Leaf("Identifier"),
    Leaf("MemberExpression"),
    Leaf("TemplateLiteral"),
    Call(MemberCallee("Identifier", "userKeys", "Identifier", "detail"),
         <<Lit("number", "1")>>),
    Call(IdCallee("createKey"), <<Lit("string", "users")>>),
    Obj(<<>>) }

RawLeaves == { Arr(<<>>), Lit("string", "users"), Leaf("Identifier") }

PropertyKeys ==
  { IdKey(k) : k \in {QUERY_KEY_PROPERTY_NAME, MUTATION_KEY_PROPERTY_NAME, "queryFn"} }
    \cup { LitKey(k) : k \in {QUERY_KEY_PROPERTY_NAME, MUTATION_KEY_PROPERTY_NAME} }

ObjectCallees == DeepCallees \cup { IdCallee("useQuery") }

\* single statements over every callee shape, name, argument and key shape
WideStatements ==
  { Call(c, <<l>>) : c \in WideCallees, l \in WideLeaves }
    \cup { Call(c, <<>>) : c \in WideCallees }
    \cup { Call(c, <<Obj(<<Prop(k, l)>>)>>) :
             c \in ObjectCallees, k \in PropertyKeys, l \in WideLeaves }
    \cup { Obj(<<Prop(k, l)>>) : k \in PropertyKeys, l \in WideLeaves }
    \cup { Call(c, <<Obj(<<Prop(IdKey(QUERY_KEY_PROPERTY_NAME), l1),
                           Prop(IdKey(MUTATION_KEY_PROPERTY_NAME), l2)>>)>>) :
             c \in ObjectCallees, l1 \in RawLeaves, l2 \in RawLeaves }
    \cup { Call(c, <<l1, l2>>) : c \in ObjectCallees, l1 \in RawLeaves, l2 \in RawLeaves }

Programs ==
  { Program(<<s>>) : s \in Deep(MaxDepth) \cup WideStatements }
    \cup { Program(<<s, t>>) : s \in Deep(MaxDepth - 1), t \in TailStatements }

(***************************************************************************)
(* One run of the rule on one program.                                     *)
(***************************************************************************)
NoRun == [tree |-> NoNode, reports |-> <<>>]

Init ==
  /\ tree \in Programs
  /\ steps = Steps(tree, <<>>)
  /\ pc = 1
  /\ inQueryOptionsCall = FALSE
  /\ reports = <<>>
  /\ phase = "first"
  /\ first = NoRun

Next ==
  \/ CallExpression
  \/ CallExpressionExit
  \/ Property
  \/ OtherNode

Spec == Init /\ [][Next]_vars

(***************************************************************************)
(* Three runs in one process: a program is linted, then another program,   *)
(* then the first one again.  Each run begins with create.  The host gives *)
(* up a traversal when a listener of some other rule throws, so the run in *)
(* between may stop at any step, also between the enter and the exit of a  *)
(* queryOptions call.                                                      *)
(***************************************************************************)
RunPrograms ==
  { Program(<<s>>) : s \in Deep(MaxDepth - 1) }
    \cup { Program(<<s, t>>) : s \in Deep(1), t \in TailStatements }

\* queryOptions({ queryKey: [] }); queryClient.setQueryData([]);
\* queryOptions(queryOptions()); useQuery({ queryKey: [] })
OtherPrograms ==
  { Program(<<Call(QueryOptions,
                   <<Obj(<<Prop(IdKey(QUERY_KEY_PROPERTY_NAME), Arr(<<>>))>>)>>)>>),
    Program(<<Call(ClientMethod("setQueryData"), <<Arr(<<>>)>>)>>),
    Program(<<Call(QueryOptions, <<Call(QueryOptions, <<>>)>>),
              Call(IdCallee("useQuery"),
                   <<Obj(<<Prop(IdKey(QUERY_KEY_PROPERTY_NAME), Arr(<<>>))>>)>>)>>) }

InitRuns ==
  /\ tree \in RunPrograms
  /\ steps = Steps(tree, <<>>)
  /\ pc = 1
  /\ inQueryOptionsCall = FALSE
  /\ reports = <<>>
  /\ phase = "first"
  /\ first = NoRun

\* the first run is over; its diagnostics are kept and another program is linted
LintOther ==
  /\ phase = "first"
  /\ Done
  /\ \E t \in OtherPrograms : create(t)
  /\ phase' = "other"
  /\ first' = [tree |-> tree, reports |-> reports]

\* the run in between is over or given up; the first program is linted again
LintAgain ==
  /\ phase = "other"
  /\ create(first.tree)
  /\ phase' = "again"
  /\ UNCHANGED first

NextRuns ==
  \/ CallExpression
  \/ CallExpressionExit
  \/ Property
  \/ OtherNode
  \/ LintOther
  \/ LintAgain

SpecRuns == InitRuns /\ [][NextRuns]_vars

(***************************************************************************)
(* Vocabulary of the properties below, stated on the tree and on the list  *)
(* of diagnostics, without the rule's own helpers.                         *)
(***************************************************************************)
Paths == { steps[i].path : i \in DOMAIN steps }

At(p) == NodeAt(tree, p)

\* the listener for the node at p has run
Visited(p) ==
  \E i \in DOMAIN steps : i < pc /\ steps[i] = [kind |-> "enter", path |-> p]

\* the call at p has been left
Exited(p) ==
  \E i \in DOMAIN steps : i < pc /\ steps[i] = [kind |-> "exit", path |-> p]

\* the number of diagnostics located at the node at p
Count(p) == Cardinality({ i \in DOMAIN reports : reports[i] = p })

IsProperPrefix(q, p) == Len(q) < Len(p) /\ SubSeq(p, 1, Len(q)) = q

IsCall(p) == At(p).type = "CallExpression"

IsWrapperCall(p) ==
  /\ IsCall(p)
  /\ At(p).callee.type = "Identifier"
  /\ At(p).callee.name = "queryOptions"

\* p lies in the arguments of some queryOptions call
InsideWrapper(p) == \E q \in Paths : IsProperPrefix(q, p) /\ IsWrapperCall(q)

TrackedClientMethods ==
  { "setQueryData", "getQueryData", "invalidateQueries", "refetchQueries",
    "removeQueries", "resetQueries", "cancelQueries", "isFetching",
    "prefetchQuery", "fetchQuery", "fetchInfiniteQuery" }

TrackedHooks == { "useQuery", "useInfiniteQuery", "useMutation" }

IsClientReceiver(p) ==
  /\ At(p).callee.type = "MemberExpression"
  /\ At(p).callee.object.type = "Identifier"
  /\ At(p).callee.object.name = "queryClient"

\* queryClient.<client method>(...) or <hook>(...)
IsTrackedCall(p) ==
  /\ IsCall(p)
  /\ \/ /\ IsClientReceiver(p)
        /\ At(p).callee.property.type = "Identifier"
        /\ At(p).callee.property.name \in TrackedClientMethods
     \/ /\ At(p).callee.type = "Identifier"
        /\ At(p).callee.name \in TrackedHooks

IsArrayOrString(node) ==
  \/ node.type = "ArrayExpression"
  \/ node.type = "Literal" /\ node.valueType = "string"

HasRawFirstArgument(p) ==
  /\ IsCall(p)
  /\ Len(At(p).kids) >= 1
  /\ IsArrayOrString(At(p).kids[1])

\* a property written queryKey: v or mutationKey: v, v an array or string
IsRawKeyProperty(p) ==
  /\ At(p).type = "Property"
  /\ At(p).key.type = "Identifier"
  /\ At(p).key.name \in {"queryKey", "mutationKey"}
  /\ IsArrayOrString(At(p).kids[1])

ReportedOnceVisited(site, owner) == Count(site) = (IF Visited(owner) THEN 1 ELSE 0)

(***************************************************************************)
(* C1.  A tracked call outside every queryOptions call whose first         *)
(* argument is an array or string literal gets exactly one diagnostic, at  *)
(* that argument, once its listener has run (and none before), whatever    *)
(* the array holds and however deep the call is nested in other calls.     *)
(***************************************************************************)
C1_RawDirectArgumentReportedOnce ==
  \A p \in Paths :
    (IsTrackedCall(p) /\ ~InsideWrapper(p) /\ HasRawFirstArgument(p))
      => ReportedOnceVisited(Append(p, 1), p)

\* a finished run with a raw tracked call in the callback of a raw tracked
\* call in the callback of a raw tracked call: three diagnostics
C1_Witness ==
  /\ Done
  /\ \E p, q, r \in Paths :
       /\ IsProperPrefix(p, q) /\ IsProperPrefix(q, r)
       /\ \A c \in {p, q, r} :
            /\ IsTrackedCall(c) /\ ~InsideWrapper(c) /\ HasRawFirstArgument(c)
            /\ Count(Append(c, 1)) = 1
       /\ Len(reports) = 3

C3_IndirectionsNeverReported ==
  \A i \in DOMAIN reports :
    At(reports[i]).type \notin {"Identifier", "MemberExpression", "CallExpression"}

IsKeySite(p) ==
  /\ Len(p) >= 1
  /\ LET owner == SubSeq(p, 1, Len(p) - 1)
     IN  \/ IsTrackedCall(owner) /\ p = Append(owner, 1)
         \/ /\ At(owner).type = "Property"
            /\ At(owner).key.type = "Identifier"
            /\ At(owner).key.name \in {"queryKey", "mutationKey"}

\* a finished run over a tracked call whose first argument is a call, and one
\* over a key property whose value is a member access
C3_Witness ==
  /\ Done
  /\ \E p \in Paths :
       /\ IsKeySite(p)
       /\ At(p).type = "CallExpression"
       /\ At(SubSeq(p, 1, Len(p) - 1)).type = "Property"
       /\ reports = <<>>

(***************************************************************************)
(* C7.  A member call on a receiver other than the identifier queryClient, *)
(* or on queryClient with a name that is not tracked, gets no diagnostic   *)
(* for a raw first argument.                                               *)
(***************************************************************************)
IsInertMemberCall(p) ==
  /\ IsCall(p)
  /\ At(p).callee.type = "MemberExpression"
  /\ \/ ~IsClientReceiver(p)
     \/ /\ At(p).callee.property.type = "Identifier"
        /\ At(p).callee.property.name \notin (TrackedClientMethods \cup TrackedHooks)

\* C7: no diagnostic at the raw first argument of an inert member call
C7_NonTrackedCallsInert ==
  \A p \in Paths :
    (IsInertMemberCall(p) /\ HasRawFirstArgument(p)) => Count(Append(p, 1)) = 0

\* a finished run over someOtherObject.setQueryData("users")
C7_Witness ==
  /\ Done
  /\ \E p \in Paths :
       /\ IsInertMemberCall(p) /\ HasRawFirstArgument(p)
       /\ At(p).callee.object.name = "someOtherObject"
       /\ At(p).callee.property.name = "setQueryData"
       /\ reports = <<>>

(***************************************************************************)
(* C4.  A raw queryKey/mutationKey property of the object literal passed   *)
(* to a queryOptions call gets no diagnostic, and a raw key-bearing site   *)
(* outside every queryOptions call is still reported exactly once.         *)
(***************************************************************************)
\* the property at p belongs to an object literal that is an argument of a
\* queryOptions call
IsWrapperArgumentProperty(p) ==
  /\ Len(p) >= 2
  /\ At(Front(p)).type = "ObjectExpression"
  /\ IsWrapperCall(Front(Front(p)))

\* C4: none for a raw key property of queryOptions' object argument, exactly
\* one for a raw key-bearing site outside every queryOptions call
C4_WrapperExemptionLexical ==
  /\ \A p \in Paths :
       (IsRawKeyProperty(p) /\ IsWrapperArgumentProperty(p))
         => Count(Append(p, 1)) = 0
  /\ \A p \in Paths :
       (IsRawKeyProperty(p) /\ ~InsideWrapper(p))
         => ReportedOnceVisited(Append(p, 1), p)
  /\ \A p \in Paths :
       (IsTrackedCall(p) /\ ~InsideWrapper(p) /\ HasRawFirstArgument(p))
         => ReportedOnceVisited(Append(p, 1), p)

(***************************************************************************)
(* C5.  While the traversal is between the enter and the exit of a         *)
(* queryOptions call, suppression is on, so no raw key property inside a   *)
(* queryOptions call is reported, whatever calls were entered and left     *)
(* inside it.                                                              *)
(***************************************************************************)
InOpenWrapper == \E q \in Paths : IsWrapperCall(q) /\ Visited(q) /\ ~Exited(q)

\* C5: suppression is on between the enter and the exit of a queryOptions
\* call, and no raw key property inside one is reported
C5_SuppressionDepthCounted ==
  /\ InOpenWrapper => inQueryOptionsCall
  /\ \A p \in Paths :
       (IsRawKeyProperty(p) /\ InsideWrapper(p)) => Count(Append(p, 1)) = 0

(***************************************************************************)
(* C6.  A tracked call that lies in the arguments of a queryOptions call   *)
(* gets no diagnostic for a raw first argument.                            *)
(***************************************************************************)
C6_DirectArgumentsExemptInWrapper ==
  \A p \in Paths :
    (IsTrackedCall(p) /\ InsideWrapper(p) /\ HasRawFirstArgument(p))
      => Count(Append(p, 1)) = 0

(***************************************************************************)
(* C8.  Only queryClient.<client method>(...) and <hook>(...) are tracked: *)
(* a first argument is reported only for a call of one of the two shapes   *)
(* (so not for a bare call named like a client method, nor for a member    *)
(* call on queryClient named like a hook), and outside queryOptions it is  *)
(* reported for every call of the two shapes.                              *)
(***************************************************************************)
C8_TwoShapesTwoNameSets ==
  /\ \A p \in Paths :
       (IsCall(p) /\ Count(Append(p, 1)) > 0) => IsTrackedCall(p)
  /\ \A p \in Paths :
       (IsTrackedCall(p) /\ ~InsideWrapper(p) /\ HasRawFirstArgument(p) /\ Visited(p))
         => Count(Append(p, 1)) > 0

(***************************************************************************)
(* C9.  No node gets more than one diagnostic, and when the first argument *)
(* of a tracked call is an object literal with a raw queryKey/mutationKey  *)
(* property, the diagnostic is at the property's value, exactly one for    *)
(* each such property, and none at the object.                             *)
(***************************************************************************)
NoNodeReportedTwice == \A p \in Paths : Count(p) <= 1

HasObjectFirstArgument(p) ==
  /\ IsCall(p)
  /\ Len(At(p).kids) >= 1
  /\ At(p).kids[1].type = "ObjectExpression"

\* the raw key properties of the object literal at p
RawKeyProperties(p) ==
  { q \in { Append(p, j) : j \in DOMAIN At(p).kids } : IsRawKeyProperty(q) }

C10_RunsIndependent ==
  /\ pc = 1 => ~inQueryOptionsCall
  /\ (phase = "again" /\ Done) => reports = first.reports

\* the second run of a program with a queryOptions call and a diagnostic is over
C10_Witness ==
  /\ phase = "again"
  /\ Done
  /\ reports # <<>>
  /\ \E q \in Paths : IsWrapperCall(q)

(***************************************************************************)
(* C11.  Suppression is off when the traversal ends; a queryOptions call   *)
(* is left only after it was entered; and suppression is on only between   *)
(* the enter and the exit of some queryOptions call.                       *)
(***************************************************************************)
C11_SuppressionPairedWithTraversal ==
  /\ Done => ~inQueryOptionsCall
  /\ \A q \in Paths : (IsWrapperCall(q) /\ Exited(q)) => Visited(q)
  /\ inQueryOptionsCall => InOpenWrapper

\* the traversal of a program with a queryOptions call inside another one
\* is over
C11_Witness ==
  /\ Done
  /\ ~inQueryOptionsCall
  /\ \E q, r \in Paths :
       /\ IsWrapperCall(q) /\ IsWrapperCall(r) /\ IsProperPrefix(q, r)
       /\ Exited(q) /\ Exited(r)

(***************************************************************************)
(* C12.  Every diagnostic is located at an array or string literal that is *)
(* the first argument of a tracked call or the value of a queryKey /       *)
(* mutationKey property; so no other shape at such a site, and no argument *)
(* after the first, is ever reported.                                      *)
(***************************************************************************)
C12_OnlyRawLiteralsAtKeySites ==
  \A i \in DOMAIN reports :
    IsArrayOrString(At(reports[i])) /\ IsKeySite(reports[i])

====
